---- MODULE Spec2Model ----
(***************************************************************************)
(* Model of the lavaclient Manager (src/src/structures/Manager.ts) and of  *)
(* the Filters value object (src/src/structures/Filters.ts).               *)
(*                                                                         *)
(* Three state machines share this module:                                 *)
(*   Spec       the Manager at run time: socket registry, player registry, *)
(*              voice handshake, socket loss and the fallback poll;        *)
(*   CtorSpec   successive `new Manager(nodes, options)` calls against the *)
(*              module-level `defaults` object;                            *)
(*   FilterSpec a Filters instance, its setters and its payload getter.    *)
(* Player.ts and Socket.ts are not part of the sources at hand; the few    *)
(* Player/Socket operations the Manager calls are modelled from the        *)
(* design document and are marked as such where they are defined.          *)
(***************************************************************************)
EXTENDS Integers, Sequences, FiniteSets, Bags, TLC

VARIABLES
  nodes,        \* Manager.nodes: the socket data the Manager was created with
  sockets,      \* Manager.sockets: socket ids in Map insertion order
  status,       \* Socket.status of every configured node
  penalties,    \* Socket.penalties of every configured node
  userId,       \* Manager.userId
  options,      \* Manager.options (the fields the run-time code reads)
  players,      \* Manager.players: guild -> Player instance (0: no entry)
  objs,         \* the Player objects, by instance number
  polls,        \* bag of running find_socket closures
  now,          \* the clock read by `new Date().getTime()`, in ms
  destroying,   \* Manager.destroy calls suspended at `await player.destroy(true)`
  ev,           \* what the last step did: the call, its result, the messages it sent
  defaults,     \* the module-level `defaults` object of Manager.ts
  mgr,          \* outcome of the last `new Manager(...)` of CtorSpec
  filt,         \* a Filters instance (FilterSpec)
  pl            \* the last value read from Filters.payload (FilterSpec)

vars == <<nodes, sockets, status, penalties, userId, options, players, objs, polls,
          now, destroying, ev, defaults, mgr, filt, pl>>

mgrVars == <<nodes, sockets, status, penalties, userId, options, players, objs, polls,
             now, destroying, ev>>
ctorVars == <<defaults, mgr>>
filterVars == <<filt, pl>>

\* JavaScript null / undefined
NULL == "null"

----------------------------------------------------------------------------
(* Bounds of the model *)

\* Socket.penalties ranges over 0..MaxPenalty
MaxPenalty == 2
\* number of Player objects alive at a time
MaxInst == 2
\* number of find_socket closures running at a time, per guild in use
MaxPolls == 1
\* number of Manager.destroy calls suspended at a time, per guild
MaxDestroy == 1

\* the clock runs from 0 to MaxTime
MaxTime == 2

\* the ids of the nodes a configuration may name
SocketIds == {"A", "B", "C"}
Guilds == {"g1", "g2"}
Insts == 1..MaxInst

----------------------------------------------------------------------------
(* Filters.ts *)

\* A JavaScript object is a record (a function from its own keys); the null
\* reference is the record NullObj, which no filter object equals.  Numbers
\* are written as strings: the code only compares them by !==.
NullObj == [null |-> TRUE]

\* Object.values(o)
ObjectValues(o) == {o[k] : k \in DOMAIN o}

\* !!o for an object reference
Truthy(o) == o # NullObj

\* the values the model assigns to the public filter fields
VolumeValues == {"1", "2"}
EqualizerValues ==
  { <<>>, <<[band |-> "0", gain |-> "0"]>>, <<[band |-> "0", gain |-> "1"]>>,
    <<[band |-> "0", gain |-> "0"], [band |-> "1", gain |-> "1"]>> }
TimescaleValues ==
  { NullObj, [rate |-> "1", speed |-> "1", pitch |-> "1"],
    [rate |-> "1", speed |-> "2", pitch |-> "1"], [pitch |-> "1"], [pitch |-> "0"] }
KaraokeValues ==
  { NullObj, [level |-> "1", monoLevel |-> "1", filterBand |-> "220", filterWidth |-> "100"] }
TremoloValues ==
  { NullObj, [depth |-> "0.5", frequency |-> "2"], [depth |-> "0", frequency |-> "2"],
    [depth |-> "1", frequency |-> "0"] }
RotationValues == { NullObj, [rotationHz |-> "0"], [rotationHz |-> "2"] }
DistortionValues ==
  { NullObj, [sinOffset |-> "null", scale |-> "null"], [sinOffset |-> "0", scale |-> "null"],
    [sinOffset |-> "0", scale |-> "1"] }

\* new Filters(player)
NewFilters ==
  [ volume |-> "1", equalizer |-> <<>>, tremolo |-> NullObj, karaoke |-> NullObj,
    timescale |-> NullObj, rotation |-> NullObj, distortion |-> NullObj ]

isEqualizerEnabled(f) ==
  \E k \in 1..Len(f.equalizer) : f.equalizer[k].gain # "0"

\* a tremolo test that forgets the depth
isTremoloEnabledNoDepth(f) == Truthy(f.tremolo)

isTremoloEnabled(f) == Truthy(f.tremolo) /\ f.tremolo.depth # "0"

isKaraokeEnabled(f) == Truthy(f.karaoke)

isTimescaleEnabled(f) ==
  Truthy(f.timescale) /\ \E v \in ObjectValues(f.timescale) : v # "1"

isDistortionEnabled(f) ==
  Truthy(f.distortion) /\ \E v \in ObjectValues(f.distortion) : v # "null"

isRotationEnabled(f) == Truthy(f.rotation) /\ f.rotation.rotationHz # "0"

\* `if (enabled) payload[key] = value`
PayloadKey(enabled, key, value) ==
  IF enabled THEN [k \in {key} |-> value] ELSE [k \in {} |-> value]

\* get payload(): the keys set last win nothing here, every key is set once
payload(f) ==
  [volume |-> f.volume, equalizer |-> f.equalizer]
    @@ PayloadKey(isTimescaleEnabled(f), "timescale", f.timescale)
    @@ PayloadKey(isKaraokeEnabled(f), "karaoke", f.karaoke)
    @@ PayloadKey(isTremoloEnabled(f), "tremolo", f.tremolo)
    @@ PayloadKey(isRotationEnabled(f), "rotation", f.rotation)
    @@ PayloadKey(isDistortionEnabled(f), "distortion", f.distortion)

\* no payload read since the filters were last assigned
NoPayload == [unread |-> TRUE]

FilterInit ==
  /\ filt = NewFilters
  /\ pl = NoPayload

\* filters.<field> = value, for each public field
SetVolume ==
  /\ \E v \in VolumeValues : filt' = [filt EXCEPT !.volume = v]
  /\ pl' = NoPayload
  /\ UNCHANGED <<mgrVars, ctorVars>>
SetEqualizer ==
  /\ \E v \in EqualizerValues : filt' = [filt EXCEPT !.equalizer = v]
  /\ pl' = NoPayload
  /\ UNCHANGED <<mgrVars, ctorVars>>
SetTimescale ==
  /\ \E v \in TimescaleValues : filt' = [filt EXCEPT !.timescale = v]
  /\ pl' = NoPayload
  /\ UNCHANGED <<mgrVars, ctorVars>>
SetKaraoke ==
  /\ \E v \in KaraokeValues : filt' = [filt EXCEPT !.karaoke = v]
  /\ pl' = NoPayload
  /\ UNCHANGED <<mgrVars, ctorVars>>
SetTremolo ==
  /\ \E v \in TremoloValues : filt' = [filt EXCEPT !.tremolo = v]
  /\ pl' = NoPayload
  /\ UNCHANGED <<mgrVars, ctorVars>>
SetRotation ==
  /\ \E v \in RotationValues : filt' = [filt EXCEPT !.rotation = v]
  /\ pl' = NoPayload
  /\ UNCHANGED <<mgrVars, ctorVars>>
SetDistortion ==
  /\ \E v \in DistortionValues : filt' = [filt EXCEPT !.distortion = v]
  /\ pl' = NoPayload
  /\ UNCHANGED <<mgrVars, ctorVars>>

\* const p = filters.payload
ReadPayload ==
  /\ pl' = payload(filt)
  /\ filt' = filt
  /\ UNCHANGED <<mgrVars, ctorVars>>

FilterNext ==
  \/ SetVolume
  \/ SetEqualizer
  \/ SetTimescale
  \/ SetKaraoke
  \/ SetTremolo
  \/ SetRotation
  \/ SetDistortion
  \/ ReadPayload

----------------------------------------------------------------------------
(* Manager.ts: `defaults` and the constructor *)

\* values of the `send` option: the default thrower of line 17, two caller
\* functions, an explicit undefined, and a value that is no function
DefaultSend == "defaultSend"
SendFunctions == {DefaultSend, "sendA", "sendB"}
SendValues == SendFunctions \cup {"undefined", "notAFunction"}
ShardValues == {0, 1, 2}

\* const defaults = {...}
defaults0 ==
  [send |-> DefaultSend, auto_fallback_socket |-> TRUE, shards |-> 1]

\* an object without own keys
EmptyObj == [k \in {} |-> NULL]

\* the options objects passed to the constructor: each key given or omitted
OptionObjects ==
  { s @@ h @@ a :
      s \in {EmptyObj} \cup {[send |-> v] : v \in SendValues \ {DefaultSend}},
      h \in {EmptyObj} \cup {[shards |-> n] : n \in ShardValues},
      a \in {EmptyObj} \cup {[auto_fallback_socket |-> b] : b \in BOOLEAN} }

\* Object.assign(target, source): the own keys of source overwrite target's
ObjectAssign(target, source) == source @@ target

\* typeof v === "function"
IsFunction(v) == v \in SendFunctions

\* the two checks of the constructor, in order; "none" when it returns
ConstructorThrows(o) ==
  IF ~IsFunction(o.send)
    THEN "TypeError: Please provide a send function for sending packets to discord."
  ELSE IF o.shards < 1
    THEN "TypeError: Shard count must be 1 or greater."
  ELSE "none"

NoManager ==
  [called |-> FALSE, given |-> EmptyObj, threw |-> "none", options |-> defaults0,
   listening |-> FALSE]

CtorInit ==
  /\ defaults = defaults0
  /\ mgr = NoManager

\* a constructor that registers the listener whatever the flag says
ListensForCloseAlways(opts) == TRUE

\* lines 102-104: the "socketClose" listener that calls fallback is
\* registered only under `if (this.options.auto_fallback_socket)`
ListensForClose(opts) == opts.auto_fallback_socket

\* new Manager(nodes, opts)
Constructor(opts) ==
  LET merged == ObjectAssign(defaults, opts)
      threw == ConstructorThrows(merged)
  IN /\ defaults' = merged
     /\ mgr' = [ called |-> TRUE,
                 given |-> opts,
                 threw |-> threw,
                 options |-> merged,
                 listening |-> (threw = "none" /\ ListensForClose(merged)) ]
     /\ UNCHANGED <<mgrVars, filterVars>>

CtorNext == \E opts \in OptionObjects : Constructor(opts)

----------------------------------------------------------------------------
(* Manager.ts at run time: the registries *)

\* Status.CONNECTED, the status `ideal` compares with 0
CONNECTED == "CONNECTED"
Statuses == {"CONNECTING", CONNECTED, "RECONNECTING", "DISCONNECTED"}

UserIds == {"me", "other"}
ChannelIds == {"c1"}
TrackIds == {"t1"}
SessionIds == {"s1"}
ServerTokens == {"v1"}

\* the elements of a sequence
Elems(seq) == {seq[k] : k \in 1..Len(seq)}

\* [...this.sockets.values()].filter(s => s.status == 0)
FilterConnected(socks, st) == SelectSeq(socks, LAMBDA s : st[s] = CONNECTED)

\* a sort step that puts x before the elements it compares equal to
InsertSortedBeforeEqual(sorted, x, pen) ==
  LET n == Cardinality({k \in 1..Len(sorted) : pen[sorted[k]] - pen[x] < 0})
  IN SubSeq(sorted, 1, n) \o <<x>> \o SubSeq(sorted, n + 1, Len(sorted))

\* one step of the stable sort: x goes behind every element that does not
\* compare greater than it
InsertSorted(sorted, x, pen) ==
  LET n == Cardinality({k \in 1..Len(sorted) : pen[sorted[k]] - pen[x] <= 0})
  IN SubSeq(sorted, 1, n) \o <<x>> \o SubSeq(sorted, n + 1, Len(sorted))

\* a selection that keeps the registry order and never sorts
SortByPenaltiesUnsorted(seq, pen) == seq

\* Array.prototype.sort((a, b) => a.penalties - b.penalties), which is stable
RECURSIVE SortByPenalties(_, _)
SortByPenalties(seq, pen) ==
  IF seq = <<>> THEN <<>>
  ELSE InsertSorted(SortByPenalties(SubSeq(seq, 1, Len(seq) - 1), pen), seq[Len(seq)], pen)

\* get ideal(), for a given registry state
idealOf(socks, st, pen) == SortByPenalties(FilterConnected(socks, st), pen)

ideal == idealOf(sockets, status, penalties)

\* seq[0], NULL standing for undefined
First(seq) == IF seq = <<>> THEN NULL ELSE seq[1]

\* a Player object; NoObj is a slot that holds no object
NoObj ==
  [ guild |-> NULL, socket |-> NULL, channel |-> NULL, track |-> NULL,
    sessionId |-> NULL, server |-> NULL, position |-> 0, filters |-> NewFilters ]

\* new Player(socket, id)
NewPlayer(socket, id) == [NoObj EXCEPT !.guild = id, !.socket = socket]

\* the Player objects something still refers to: the registry or a closure
Referenced(pls, pos) ==
  {pls[g] : g \in Guilds} \cup {r.p : r \in BagToSet(pos)}

\* objects nothing refers to any more are collected
Collect(os, pls, pos) ==
  [i \in Insts |-> IF i \in Referenced(pls, pos) THEN os[i] ELSE NoObj]

FreeInsts == {i \in Insts : objs[i] = NoObj}

\* a message handed to Socket.send by Player.send(op, data)
Msg(op, to, guild, data) == [op |-> op, to |-> to, guild |-> guild, data |-> data]

\* what a step did: the operation, the guild, argument and Player object it
\* was about, its return value or the error it threw, the messages it sent,
\* the events it emitted, and what the fallback sweep did to each Player
Ev(op, guild, arg, player, ret, sent, emitted, swept) ==
  [ op |-> op, guild |-> guild, arg |-> arg, player |-> player, ret |-> ret,
    sent |-> sent, emitted |-> emitted, swept |-> swept ]

\* an emitted event
Emit(event, data) == [event |-> event, data |-> data]

\* Manager.init(userId): registers every configured node whose connect()
\* does not throw; `failing` are the nodes whose connect() throws this time
init(u, failing) ==
  LET uid == IF u = NULL THEN userId ELSE u
      added == SelectSeq(nodes, LAMBDA s : s \notin Elems(sockets) /\ s \notin failing)
      errors == SelectSeq(nodes, LAMBDA s : s \notin Elems(sockets) /\ s \in failing)
  IN IF uid = NULL
       THEN /\ ev' = Ev("init", NULL, u, 0, "Error: Provide a client id for lavalink to use.",
                        <<>>, <<>>, {})
            /\ UNCHANGED <<sockets, status, penalties, userId>>
       ELSE /\ userId' = uid
            /\ sockets' = sockets \o added
            /\ status' = [s \in SocketIds |->
                            IF s \in Elems(added) THEN "CONNECTING" ELSE status[s]]
            /\ penalties' = penalties
            /\ ev' = Ev("init", NULL, u, 0, "void", <<>>,
                        [k \in 1..Len(errors) |-> Emit("socketError", errors[k])], {})

\* the node connection opens (first connect or reconnect)
SocketOpen(s) ==
  /\ s \in Elems(sockets)
  /\ status[s] \in {"CONNECTING", "RECONNECTING"}
  /\ status' = [status EXCEPT ![s] = CONNECTED]
  /\ ev' = Ev("socketReady", NULL, s, 0, "void", <<>>, <<>>, {})
  /\ UNCHANGED <<now, nodes, sockets, penalties, userId, options, players, objs, polls, destroying,
               ctorVars, filterVars>>

\* the node reports its load; the penalty is recomputed from it
SocketStats(s, n) ==
  /\ s \in Elems(sockets)
  /\ status[s] = CONNECTED
  /\ penalties[s] # n
  /\ penalties' = [penalties EXCEPT ![s] = n]
  /\ ev' = Ev("stats", NULL, s, 0, "void", <<>>, <<>>, {})
  /\ UNCHANGED <<now, nodes, sockets, status, userId, options, players, objs, polls, destroying,
               ctorVars, filterVars>>

\* the reconnect attempts of a node are used up
SocketDisconnect(s) ==
  /\ s \in Elems(sockets)
  /\ status[s] = "RECONNECTING"
  /\ status' = [status EXCEPT ![s] = "DISCONNECTED"]
  /\ ev' = Ev("socketDisconnect", NULL, s, 0, "void", <<>>, <<>>, {})
  /\ UNCHANGED <<now, nodes, sockets, penalties, userId, options, players, objs, polls, destroying,
               ctorVars, filterVars>>

\* Player.handleVoiceUpdate keeps the half it is given ...
StoreHalf(o, half, value) ==
  IF half = "server" THEN [o EXCEPT !.server = value] ELSE [o EXCEPT !.sessionId = value]

\* ... and dispatches the combined voice update once both are there
BothHalves(o) == o.sessionId # NULL /\ o.server # NULL

VoiceUpdateMsg(o) ==
  Msg("voiceUpdate", o.socket, o.guild, [sessionId |-> o.sessionId, event |-> o.server])

handleVoiceUpdate(o) == IF BothHalves(o) THEN <<VoiceUpdateMsg(o)>> ELSE <<>>

\* Manager.serverUpdate(update)
serverUpdate(g, token) ==
  LET i == players[g]
      o == StoreHalf(objs[i], "server", token)
  IN /\ IF i # 0
          THEN /\ objs' = [objs EXCEPT ![i] = o]
               /\ ev' = Ev("serverUpdate", g, token, i, "void", handleVoiceUpdate(o), <<>>, {})
          ELSE /\ objs' = objs
               /\ ev' = Ev("serverUpdate", g, token, 0, "void", <<>>, <<>>, {})
     /\ UNCHANGED <<now, nodes, sockets, status, penalties, userId, options, players, polls, destroying,
               ctorVars, filterVars>>

\* a condition that does not look at the user of the update
StateUpdateAcceptedAnyUser(i, user) == i # 0

\* the condition of line 210
StateUpdateAccepted(i, user) == i # 0 /\ user = userId

\* a test that takes every update for a move
ChannelDiffersAlways(chan, o) == TRUE

\* line 211: update.channel_id !== player.channel
ChannelDiffers(chan, o) == chan # o.channel

\* Manager.stateUpdate(update)
stateUpdate(g, user, chan, sess) ==
  LET i == players[g]
      update == [user |-> user, channel |-> chan]
      moved == ChannelDiffers(chan, objs[i])
      o1 == IF moved THEN [objs[i] EXCEPT !.channel = chan] ELSE objs[i]
      o2 == StoreHalf(o1, "state", sess)
  IN /\ IF StateUpdateAccepted(i, user)
          THEN /\ objs' = [objs EXCEPT ![i] = o2]
               /\ ev' = Ev("stateUpdate", g, update, i, "void", handleVoiceUpdate(o2),
                           IF moved THEN <<Emit("move", chan)>> ELSE <<>>, {})
          ELSE /\ objs' = objs
               /\ ev' = Ev("stateUpdate", g, update, 0, "void", <<>>, <<>>, {})
     /\ UNCHANGED <<now, nodes, sockets, status, penalties, userId, options, players, polls, destroying,
               ctorVars, filterVars>>

\* the node starts playing a track for the Player
TrackStart(g, t) ==
  LET i == players[g]
  IN /\ i # 0
     /\ status[objs[i].socket] = CONNECTED
     /\ objs[i].track # t
     /\ objs' = [objs EXCEPT ![i].track = t]
     /\ ev' = Ev("trackStart", g, t, i, "void", <<>>, <<>>, {})
     /\ UNCHANGED <<now, nodes, sockets, status, penalties, userId, options, players, polls, destroying,
               ctorVars, filterVars>>

\* the positions a node reports; a position can be negative
Positions == {-5, 0, 7}

\* the node reports the playback position of the Player
PositionUpdate(g, position) ==
  LET i == players[g]
  IN /\ i # 0
     /\ objs[i].position # position
     /\ objs' = [objs EXCEPT ![i].position = position]
     /\ ev' = Ev("playerUpdate", g, position, i, "void", <<>>, <<>>, {})
     /\ UNCHANGED <<now, nodes, sockets, status, penalties, userId, options, players, polls,
               destroying, ctorVars, filterVars>>

\* the filters the caller gives a Player
PlayerFilterValues ==
  { NewFilters,
    [NewFilters EXCEPT !.volume = "2", !.tremolo = [depth |-> "0.5", frequency |-> "2"]],
    [NewFilters EXCEPT !.tremolo = [depth |-> "0", frequency |-> "2"]] }

\* the caller assigns the public fields of player.filters
SetPlayerFilters(g, f) ==
  LET i == players[g]
  IN /\ i # 0
     /\ objs[i].filters # f
     /\ objs' = [objs EXCEPT ![i].filters = f]
     /\ ev' = Ev("setFilters", g, NULL, i, "void", <<>>, <<>>, {})
     /\ UNCHANGED <<now, nodes, sockets, status, penalties, userId, options, players, polls,
               destroying, ctorVars, filterVars>>

\* time passes
Tick ==
  /\ now < MaxTime
  /\ now' = now + 1
  /\ ev' = Ev("tick", NULL, NULL, 0, "void", <<>>, <<>>, {})
  /\ UNCHANGED <<nodes, sockets, status, penalties, userId, options, players, objs, polls,
               destroying, ctorVars, filterVars>>

\* a default that overrides the socket the caller supplied
CreateSocketIgnoresArgument(sarg) == First(ideal)

\* the default of create's second parameter
CreateSocket(sarg) == IF sarg = NULL THEN First(ideal) ELSE sarg

\* an existing Player is returned only when no socket is supplied
ReturnsExistingUnlessSocketGiven(existing, sarg) == existing # 0 /\ sarg = NULL

\* `if (existing) return existing`
ReturnsExisting(existing, sarg) == existing # 0

\* Manager.create(guild, socket)
create(g, sarg) ==
  LET socket == CreateSocket(sarg)
      existing == players[g]
      i == CHOOSE f \in FreeInsts : \A f2 \in FreeInsts : f <= f2
  IN /\ IF ReturnsExisting(existing, sarg)
          THEN /\ ev' = Ev("create", g, sarg, existing, "player", <<>>, <<>>, {})
               /\ UNCHANGED <<players, objs>>
          ELSE IF socket = NULL
            THEN /\ ev' = Ev("create", g, sarg, 0, "Error: Manager#create(): No available nodes.",
                             <<>>, <<>>, {})
                 /\ UNCHANGED <<players, objs>>
            ELSE /\ FreeInsts # {}
                 /\ players' = [players EXCEPT ![g] = i]
                 /\ objs' = [objs EXCEPT ![i] = NewPlayer(socket, g)]
                 /\ ev' = Ev("create", g, sarg, i, "player", <<>>, <<>>, {})
     /\ UNCHANGED <<now, nodes, sockets, status, penalties, userId, options, polls, destroying,
               ctorVars, filterVars>>

\* Manager.destroy(guild) up to `await player.destroy(true)`
destroyCall(g) ==
  /\ IF players[g] # 0
       THEN /\ destroying[g] < MaxDestroy
            /\ destroying' = [destroying EXCEPT ![g] = @ + 1]
            /\ ev' = Ev("destroy", g, NULL, players[g], "pending", <<>>, <<>>, {})
       ELSE /\ destroying' = destroying
            /\ ev' = Ev("destroy", g, NULL, 0, "false", <<>>, <<>>, {})
  /\ UNCHANGED <<now, nodes, sockets, status, penalties, userId, options, players, objs, polls,
               ctorVars, filterVars>>

\* Manager.destroy(guild) from there: `return this.players.delete(id)`
destroyReturn(g) ==
  /\ destroying[g] > 0
  /\ destroying' = [destroying EXCEPT ![g] = @ - 1]
  /\ players' = [players EXCEPT ![g] = 0]
  /\ objs' = Collect(objs, players', polls)
  /\ ev' = Ev("destroyed", g, NULL, players[g], IF players[g] # 0 THEN "true" ELSE "false",
              <<>>, <<>>, {})
  /\ UNCHANGED <<now, nodes, sockets, status, penalties, userId, options, polls,
               ctorVars, filterVars>>


\* Player.move(socket): the Player is bound to the new socket
move(o, socket) == [o EXCEPT !.socket = socket]

\* a running find_socket closure: the Player it captured and where it stands
\*   "timer"  waiting for setTimeout(find_socket, 1000)
\*   "voice"  suspended at `await p.move(...)`, the voice update comes next
\*   "apply"  suspended at `await p.send("voiceUpdate", ...)`
\* it holds the locals of its fallback callback: `position` and `startfind`
\* of lines 125-126, and `offset` of line 134 once a socket was found
Poll(i, pc, position, startfind, offset) ==
  [p |-> i, pc |-> pc, position |-> position, startfind |-> startfind, offset |-> offset]

\* the grace added to the offset at line 134, in ms
Grace == 1000

Max(a, b) == IF a >= b THEN a ELSE b

\* an offset that leaves the grace out
OffsetNoGrace(found_time, startfind) == found_time - startfind

\* line 134: offset = (found_time - startfind) + 1000
Offset(found_time, startfind) == (found_time - startfind) + Grace

\* the callback remembers the position as it is
AnchorPositionUnclamped(o) == o.position

\* line 125: position = Math.max(p.position, 0)
AnchorPosition(o) == Max(o.position, 0)

\* a condition that takes every Player for one of the lost socket
FallbackAppliesToAll(o, s) == TRUE

\* the condition of line 122
FallbackApplies(o, s) == o.socket = s

\* a callback that never looks at the channel
SweepOutcomeNoChannelCheck(o, target) == IF target = NULL THEN "timer" ELSE "moved"

\* what the callback of line 121 does with a Player it applies to: line 124
\* deletes it, the first find_socket() call sets the timer or moves it
SweepOutcome(o, target) ==
  IF o.channel = NULL THEN "deleted"
  ELSE IF target = NULL THEN "timer"
  ELSE "moved"

\* Manager.fallback(socket), with the socket statuses at the time of the event;
\* the model lets at most `cap` closures run at a time
fallback(s, st, cap) ==
  LET target == First(idealOf(sockets, st, penalties))
      hit == {g \in Guilds : players[g] # 0 /\ FallbackApplies(objs[players[g]], s)}
      outcome(g) == SweepOutcome(objs[players[g]], target)
      pls == [g \in Guilds |-> IF g \in hit /\ outcome(g) = "deleted" THEN 0 ELSE players[g]]
      os == [i \in Insts |->
               IF \E g \in hit : players[g] = i /\ outcome(g) = "moved"
                 THEN move(objs[i], target) ELSE objs[i]]
      closure(g) == IF outcome(g) = "moved"
                      THEN Poll(players[g], "voice", AnchorPosition(objs[players[g]]), now,
                                Offset(now, now))
                      ELSE Poll(players[g], "timer", AnchorPosition(objs[players[g]]), now, 0)
      pos == polls (+) SetToBag({ closure(g) : g \in {h \in hit : outcome(h) # "deleted"} })
  IN /\ BagCardinality(pos) <= cap
     /\ players' = pls
     /\ polls' = pos
     /\ objs' = Collect(os, pls, pos)
     /\ ev' = Ev("socketClose", NULL, s, 0, "void", <<>>, <<>>,
                 {[guild |-> g, player |-> players[g], outcome |-> outcome(g)] : g \in hit})

\* the connection of a node closes: the socket starts to reconnect and the
\* Manager emits "socketClose", which the listener of line 103 handles
SocketClose(s, cap) ==
  /\ s \in Elems(sockets)
  /\ status[s] = CONNECTED
  /\ status' = [status EXCEPT ![s] = "RECONNECTING"]
  /\ IF ListensForClose(options)
       THEN fallback(s, status', cap)
       ELSE /\ ev' = Ev("socketClose", NULL, s, 0, "void", <<>>, <<>>, {})
            /\ UNCHANGED <<players, objs, polls>>
  /\ UNCHANGED <<now, nodes, sockets, penalties, userId, options, destroying,
               ctorVars, filterVars>>

\* a reconnect attempt of a node fails: its transport closes once more and
\* the Manager emits "socketClose" again within the same disconnect episode
SocketCloseRepeated(s, cap) ==
  /\ s \in Elems(sockets)
  /\ status[s] = "RECONNECTING"
  /\ status' = status
  /\ IF ListensForClose(options)
       THEN fallback(s, status, cap)
       ELSE /\ ev' = Ev("socketClose", NULL, s, 0, "void", <<>>, <<>>, {})
            /\ UNCHANGED <<players, objs, polls>>
  /\ UNCHANGED <<now, nodes, sockets, penalties, userId, options, destroying,
               ctorVars, filterVars>>

\* find_socket() run by its timer: lines 132-135
find_socket(r) ==
  LET target == First(ideal)
      g == objs[r.p].guild
  IN /\ r \in BagToSet(polls)
     /\ r.pc = "timer"
     /\ IF target = NULL
          THEN /\ ev' = Ev("find_socket", g, NULL, r.p, "setTimeout", <<>>, <<>>, {})
               /\ UNCHANGED <<objs, polls>>
          ELSE /\ objs' = [objs EXCEPT ![r.p] = move(@, target)]
               /\ polls' = (polls (-) SetToBag({r})) (+)
                          SetToBag({[r EXCEPT !.pc = "voice", !.offset = Offset(now, r.startfind)]})
               /\ ev' = Ev("find_socket", g, target, r.p, "moved", <<>>, <<>>, {})
     /\ UNCHANGED <<now, nodes, sockets, status, penalties, userId, options, players, destroying,
               ctorVars, filterVars>>

\* a closure that goes back to its timer when the send is rejected
AfterSendRejectedRetry(r, rest) == rest (+) SetToBag({[r EXCEPT !.pc = "timer"]})

\* the rejection of `await p.send(...)` leaves find_socket(): nothing
\* catches it, the closure is gone
AfterSendRejected(r, rest) == rest

\* find_socket() resumed after `await p.move(...)`: lines 136-139; the send
\* goes through (ok) or rejects, and a rejection ends the closure
sendVoiceUpdate(r, ok) ==
  LET o == objs[r.p]
      rest == polls (-) SetToBag({r})
  IN /\ r \in BagToSet(polls)
     /\ r.pc = "voice"
     /\ IF ok
          THEN /\ polls' = rest (+) SetToBag({[r EXCEPT !.pc = "apply"]})
               /\ objs' = objs
               /\ ev' = Ev("voiceUpdate", o.guild, o.socket, r.p, "void",
                           <<VoiceUpdateMsg(o)>>, <<>>, {})
          ELSE /\ polls' = AfterSendRejected(r, rest)
               /\ objs' = Collect(objs, players, polls')
               /\ ev' = Ev("voiceUpdate", o.guild, o.socket, r.p, "Error: send rejected",
                           <<>>, <<>>, {})
     /\ UNCHANGED <<now, nodes, sockets, status, penalties, userId, options, players, destroying,
               ctorVars, filterVars>>

\* Filters.apply(): this.player.send("filters", this.payload, prioritize)
FiltersMsg(o) == Msg("filters", o.socket, o.guild, payload(o.filters))

\* line 141: p.play(p.track, {startTime: position + offset})
PlayMsg(o, r) ==
  Msg("play", o.socket, o.guild, [track |-> o.track, startTime |-> r.position + r.offset])

\* a resume that plays before it sends the filters
ResumeMessagesPlayFirst(o, r) ==
  (IF o.track # NULL THEN <<PlayMsg(o, r)>> ELSE <<>>) \o <<FiltersMsg(o)>>

\* a resume that sends the filters and never plays
ResumeMessagesNoPlay(o, r) == <<FiltersMsg(o)>>

\* lines 140-141: p.filters.apply(), then p.play(...) if the Player has a track
ResumeMessages(o, r) ==
  <<FiltersMsg(o)>> \o (IF o.track # NULL THEN <<PlayMsg(o, r)>> ELSE <<>>)

\* find_socket() resumed after `await p.send(...)`: lines 140-141
applyAndPlay(r) ==
  LET o == objs[r.p]
      rest == polls (-) SetToBag({r})
  IN /\ r \in BagToSet(polls)
     /\ r.pc = "apply"
     /\ polls' = rest
     /\ objs' = Collect(objs, players, rest)
     /\ ev' = Ev("apply", o.guild, o.socket, r.p, "void", ResumeMessages(o, r), <<>>, {})
     /\ UNCHANGED <<now, nodes, sockets, status, penalties, userId, options, players, destroying,
               ctorVars, filterVars>>

\* the closures in flight
PollRecords == BagToSet(polls)

\* the Manager after `new Manager(nodes, {send, auto_fallback_socket})`
MgrInit(ns) ==
  /\ nodes = ns
  /\ sockets = <<>>
  /\ status = [s \in SocketIds |-> "CONNECTING"]
  /\ penalties = [s \in SocketIds |-> 0]
  /\ userId = NULL
  /\ options \in {[defaults0 EXCEPT !.send = "sendA", !.auto_fallback_socket = b] : b \in BOOLEAN}
  /\ players = [g \in Guilds |-> 0]
  /\ objs = [i \in Insts |-> NoObj]
  /\ polls = EmptyBag
  /\ now = 0
  /\ destroying = [g \in Guilds |-> 0]
  /\ ev = Ev("constructor", NULL, NULL, 0, "void", <<>>, <<>>, {})

\* a Manager for two nodes
Init == MgrInit(<<"A", "B">>) /\ CtorInit /\ FilterInit

\* a Manager for three nodes
RegistryInit == MgrInit(<<"A", "B", "C">>) /\ CtorInit /\ FilterInit

\* Manager.init(userId) with the nodes in `failing` throwing from connect()
Initialize(fs) ==
  /\ \E u \in {NULL, "me"} : \E failing \in fs : init(u, failing)
  /\ UNCHANGED <<now, nodes, options, players, objs, polls, destroying,
               ctorVars, filterVars>>

\* the node side of the sockets
NodeNext(gs) ==
  \/ \E s \in SocketIds : SocketOpen(s)
  \/ \E s \in SocketIds : SocketClose(s, MaxPolls * Cardinality(gs))

\* the voice state updates of the users `us` for the guilds `gs`
StateUpdates(gs, us) ==
  \E g \in gs : \E user \in us : \E chan \in ChannelIds \cup {NULL} :
    \E sess \in SessionIds : stateUpdate(g, user, chan, sess)

\* Manager.create for the guilds `gs`, with and without a socket
Creates(gs) == \E g \in gs : \E sarg \in Elems(sockets) \cup {NULL} : create(g, sarg)

\* the calls and events about the Players of the guilds `gs`
PlayerNext(gs) ==
  \/ \E g \in gs : \E token \in ServerTokens : serverUpdate(g, token)
  \/ StateUpdates(gs, UserIds)
  \/ \E g \in gs : \E t \in TrackIds : TrackStart(g, t)
  \/ Creates(gs)
  \/ \E g \in gs : destroyCall(g)
  \/ \E g \in gs : destroyReturn(g)

\* the find_socket closures
PollNext ==
  \/ \E r \in PollRecords : find_socket(r)
  \/ \E r \in PollRecords : \E ok \in BOOLEAN : sendVoiceUpdate(r, ok)
  \/ \E r \in PollRecords : applyAndPlay(r)

\* the Manager serving one guild
Next ==
  \/ Initialize({{}})
  \/ NodeNext({"g1"})
  \/ PlayerNext({"g1"})
  \/ PollNext

Spec == Init /\ [][Next]_vars

\* the timers and the resumptions of the closures are scheduled fairly
PollFairness ==
  \A i \in Insts :
    /\ WF_vars(\E r \in PollRecords : r.p = i /\ find_socket(r))
    /\ WF_vars(\E r \in PollRecords : r.p = i /\ \E ok \in BOOLEAN : sendVoiceUpdate(r, ok))
    /\ WF_vars(\E r \in PollRecords : r.p = i /\ applyAndPlay(r))

\* the Manager serving one guild whose Player, once created, stays: the
\* bot is moved between channels, tracks start, sockets open and close
LiveNext ==
  \/ Initialize({{}})
  \/ NodeNext({"g1"})
  \/ Creates({"g1"})
  \/ StateUpdates({"g1"}, {"me"})
  \/ (\E t \in TrackIds : TrackStart("g1", t))
  \/ PollNext

LiveSpec == Init /\ [][LiveNext]_vars /\ PollFairness

\* the Manager serving one guild on nodes whose reconnect attempts may fail
RepeatNext ==
  \/ Initialize({{}})
  \/ (\E s \in SocketIds : SocketOpen(s))
  \/ (\E s \in SocketIds : SocketClose(s, MaxPolls + 1))
  \/ (\E s \in SocketIds : SocketCloseRepeated(s, MaxPolls + 1))
  \/ Creates({"g1"})
  \/ StateUpdates({"g1"}, {"me"})
  \/ PollNext

RepeatSpec == Init /\ [][RepeatNext]_vars

\* the Manager serving one guild whose Player joins a channel and plays
\* while time passes
ResumeNext ==
  \/ Initialize({{}})
  \/ NodeNext({"g1"})
  \/ create("g1", NULL)
  \/ (\E chan \in ChannelIds : \E sess \in SessionIds : stateUpdate("g1", "me", chan, sess))
  \/ (\E t \in TrackIds : TrackStart("g1", t))
  \/ (\E position \in Positions : PositionUpdate("g1", position))
  \/ (\E f \in PlayerFilterValues : SetPlayerFilters("g1", f))
  \/ Tick
  \/ PollNext

ResumeSpec == Init /\ [][ResumeNext]_vars

\* the Manager serving one guild on nodes whose load changes
WaitNext ==
  \/ Initialize({{}})
  \/ NodeNext({"g1"})
  \/ (\E s \in SocketIds : \E n \in 0..MaxPenalty : SocketStats(s, n))
  \/ create("g1", NULL)
  \/ (\E chan \in ChannelIds : \E sess \in SessionIds : stateUpdate("g1", "me", chan, sess))
  \/ PollNext

WaitSpec == Init /\ [][WaitNext]_vars

\* the Manager serving two guilds whose Players join and leave channels
SweepNext ==
  \/ Initialize({{}})
  \/ NodeNext(Guilds)
  \/ Creates(Guilds)
  \/ StateUpdates(Guilds, {"me"})
  \/ PollNext

SweepSpec == Init /\ [][SweepNext]_vars

\* the socket registry alone: init() with failing nodes, reconnects, load
RegistryNext ==
  \/ Initialize(SUBSET SocketIds)
  \/ NodeNext({})
  \/ \E s \in SocketIds : \E n \in 0..MaxPenalty : SocketStats(s, n)
  \/ \E s \in SocketIds : SocketDisconnect(s)

RegistrySpec == RegistryInit /\ [][RegistryNext]_vars

FilterSpec == Init /\ [][FilterNext]_vars
CtorSpec == Init /\ [][CtorNext]_vars

----------------------------------------------------------------------------
(* Properties *)

\* the operations of the find_socket closures
PollOps == {"find_socket", "voiceUpdate", "apply"}

\* the registered sockets that are CONNECTED
Connected == {s \in Elems(sockets) : status[s] = CONNECTED}

\* the place of a socket in the registry (Map insertion) order
RegIndex(s) == CHOOSE k \in 1..Len(sockets) : sockets[k] = s

\* the number of closures that hold Player object i
PollsOf(pos, i) ==
  LET mine == {r \in BagToSet(pos) : r.p = i}
  IN BagCardinality([r \in mine |-> pos[r]])

\* a closure for Player object i waits for its timer and i has a channel and a track
WaitingWithTrack(i) ==
  /\ \E r \in BagToSet(polls) : r.p = i /\ r.pc = "timer"
  /\ objs[i].channel # NULL
  /\ objs[i].track # NULL

\* the closure has sent the filter payload of Player object i and a play
\* command for its track on the socket the Player is bound to
Resumed(i) ==
  /\ ev.op = "apply"
  /\ ev.player = i
  /\ Len(ev.sent) = 2
  /\ ev.sent[1].op = "filters" /\ ev.sent[1].to = ev.arg
  /\ ev.sent[1].data = payload(NewFilters)
  /\ ev.sent[2].op = "play" /\ ev.sent[2].to = ev.arg
  /\ ev.sent[2].data.track \in TrackIds

\* the voice update of the closure for Player object i was rejected
Rejected(i) ==
  /\ ev.op = "voiceUpdate"
  /\ ev.player = i
  /\ ev.ret = "Error: send rejected"

C2_SelectConnection ==
  LET sel == First(ideal)
  IN /\ (sel = NULL) <=> (Connected = {})
     /\ sel # NULL =>
          /\ sel \in Connected
          /\ \A t \in Connected : penalties[sel] <= penalties[t]
          /\ \A t \in Connected :
               penalties[t] = penalties[sel] => RegIndex(sel) <= RegIndex(t)

\* B was registered before A (A's connect() threw in the first init() call),
\* both are CONNECTED with the same penalty, and C, of lower penalty, is
\* reconnecting: B is selected
C2_Witness ==
  /\ sockets = <<"B", "A", "C">>
  /\ status = [s \in SocketIds |-> IF s = "C" THEN "RECONNECTING" ELSE CONNECTED]
  /\ penalties = [s \in SocketIds |-> IF s = "C" THEN 0 ELSE 1]
  /\ First(ideal) = "B"

\* C3: a server or own-user state update that leaves the Player with one
\* half dispatches nothing; the update that completes the pair dispatches
\* exactly one voice update carrying both halves to the Player's socket; the
\* half stored before is kept; a state update of another user stores nothing
\* and dispatches nothing.
C3_HandshakeGating ==
  [][\A i \in Insts :
       (ev'.op \in {"serverUpdate", "stateUpdate"} /\ ev'.guild = objs[i].guild
          /\ players[ev'.guild] = i) =>
         LET before == objs[i]
             after == objs'[i]
             own == ev'.op = "serverUpdate" \/ ev'.arg.user = userId
             complete == after.sessionId # NULL /\ after.server # NULL
         IN IF ~own
              THEN after = before /\ ev'.sent = <<>>
              ELSE /\ ev'.op = "serverUpdate" =>
                        after.server = ev'.arg /\ after.sessionId = before.sessionId
                   /\ ev'.op = "stateUpdate" =>
                        after.sessionId # NULL /\ after.server = before.server
                   /\ ~complete => ev'.sent = <<>>
                   /\ complete =>
                        ev'.sent = << Msg("voiceUpdate", after.socket, after.guild,
                                          [sessionId |-> after.sessionId,
                                           event |-> after.server]) >>
    ]_vars

\* the state update arrived second and completed the pair
C3_Witness ==
  /\ ev.op = "stateUpdate"
  /\ ev.arg.user = userId
  /\ Len(ev.sent) = 1
  /\ ev.sent[1].op = "voiceUpdate"
  /\ ev.sent[1].data.sessionId # NULL
  /\ ev.sent[1].data.event # NULL

\* C4: create for a guild that has a Player returns that Player and changes
\* neither the registry nor any Player, whatever socket is passed; the
\* registry holds every Player under its own guild and no Player twice.
C4_CreateIdempotent ==
  /\ [](\A g \in Guilds : players[g] # 0 =>
          /\ objs[players[g]].guild = g
          /\ \A h \in Guilds : players[h] = players[g] => h = g)
  /\ [][\A g \in Guilds :
          (players[g] # 0 /\ ev'.op = "create" /\ ev'.guild = g) =>
            /\ ev'.ret = "player"
            /\ ev'.player = players[g]
            /\ players' = players
            /\ objs' = objs
       ]_vars

\* create was called for an existing Player with another socket than its own
C4_Witness ==
  /\ ev.op = "create"
  /\ ev.player # 0
  /\ players[ev.guild] = ev.player
  /\ ev.arg # NULL
  /\ ev.arg # objs[ev.player].socket

\* C5: with auto-fallback on, a Player without a channel that is bound to
\* the socket that closes is deleted from the registry by that step, which
\* starts no closure for it and sends nothing.
C5_Abandonment ==
  [][\A g \in Guilds :
       (/\ ev'.op = "socketClose"
        /\ options.auto_fallback_socket
        /\ players[g] # 0
        /\ objs[players[g]].socket = ev'.arg
        /\ objs[players[g]].channel = NULL) =>
         /\ players'[g] = 0
         /\ PollsOf(polls', players[g]) = PollsOf(polls, players[g])
         /\ ev'.sent = <<>>
    ]_vars

\* a socket closed and the sweep deleted a Player
C5_Witness ==
  /\ ev.op = "socketClose"
  /\ \E x \in ev.swept : x.outcome = "deleted" /\ players[x.guild] = 0

\* C6: the timer of a find_socket closure never rebinds a Player that is no
\* longer the registered Player of its guild.
C6_NoResurrection ==
  (ev.op = "find_socket" /\ ev.ret = "moved") => players[ev.guild] = ev.player

\* C7: with auto-fallback on, the step of a socket close sweeps exactly the
\* registered Players bound to that socket: each of them is deleted or gets
\* one closure; every other registered Player keeps its entry, its fields
\* and its closures; the step sends nothing.
C7_LossScope ==
  [][(ev'.op = "socketClose" /\ options.auto_fallback_socket) =>
       LET bound == {g \in Guilds : players[g] # 0 /\ objs[players[g]].socket = ev'.arg}
       IN /\ {x.guild : x \in ev'.swept} = bound
          /\ \A g \in bound :
               \/ players'[g] = 0
               \/ /\ players'[g] = players[g]
                  /\ PollsOf(polls', players[g]) = PollsOf(polls, players[g]) + 1
          /\ \A g \in Guilds \ bound :
               players[g] # 0 =>
                 /\ players'[g] = players[g]
                 /\ objs'[players[g]] = objs[players[g]]
                 /\ PollsOf(polls', players[g]) = PollsOf(polls, players[g])
          /\ ev'.sent = <<>>
    ]_vars

\* a socket closed, one Player was swept and another, bound to the other
\* socket and in a channel, was not
C7_Witness ==
  /\ ev.op = "socketClose"
  /\ \E x \in ev.swept : x.outcome # "deleted"
  /\ \E g \in Guilds :
       /\ players[g] # 0
       /\ g \notin {x.guild : x \in ev.swept}
       /\ objs[players[g]].socket # ev.arg
       /\ objs[players[g]].channel # NULL
       /\ PollsOf(polls, players[g]) = 0

\* C8: create for a guild without a Player throws, and registers nothing,
\* when no socket is supplied and no registered socket is CONNECTED; when
\* it returns, the new Player is registered under the guild and bound to
\* the supplied socket, or else to ideal[0].
C8_CreateNoNode ==
  [][\A g \in Guilds :
       (players[g] = 0 /\ ev'.op = "create" /\ ev'.guild = g) =>
         /\ (ev'.arg = NULL /\ Connected = {}) =>
              /\ ev'.ret = "Error: Manager#create(): No available nodes."
              /\ players' = players
              /\ objs' = objs
         /\ ev'.ret # "player" => players' = players /\ objs' = objs
         /\ ev'.ret = "player" =>
              /\ players'[g] = ev'.player
              /\ ev'.player # 0
              /\ \A h \in Guilds \ {g} : players'[h] = players[h]
              /\ objs'[ev'.player].guild = g
              /\ ev'.arg # NULL => objs'[ev'.player].socket = ev'.arg
              /\ ev'.arg = NULL =>
                   /\ Connected # {}
                   /\ objs'[ev'.player].socket = First(ideal)
    ]_vars

\* create threw for want of a node and the guild has no Player
C8_Witness ==
  /\ ev.op = "create"
  /\ ev.arg = NULL
  /\ ev.ret = "Error: Manager#create(): No available nodes."
  /\ players[ev.guild] = 0
  /\ sockets # <<>>

\* C9: a payload always has volume and equalizer, and each other key exactly
\* when the filter is enabled by the table of the design document.
C9_PayloadKeys ==
  pl # NoPayload =>
    LET keys == DOMAIN pl
    IN /\ {"volume", "equalizer"} \subseteq keys
       /\ keys \subseteq {"volume", "equalizer", "timescale", "karaoke", "tremolo",
                          "rotation", "distortion"}
       /\ pl.volume = filt.volume
       /\ pl.equalizer = filt.equalizer
       /\ "timescale" \in keys <=>
            (filt.timescale # NullObj /\ \E k \in DOMAIN filt.timescale : filt.timescale[k] # "1")
       /\ "tremolo" \in keys <=> (filt.tremolo # NullObj /\ filt.tremolo.depth # "0")
       /\ "karaoke" \in keys <=> filt.karaoke # NullObj
       /\ "rotation" \in keys <=> (filt.rotation # NullObj /\ filt.rotation.rotationHz # "0")
       /\ "distortion" \in keys <=>
            (filt.distortion # NullObj
               /\ \E k \in DOMAIN filt.distortion : filt.distortion[k] # "null")

\* a payload with an equalizer of zero gains, a tremolo of depth 0 left out
\* and a rotation kept
C9_Witness ==
  /\ pl # NoPayload
  /\ filt.equalizer = <<[band |-> "0", gain |-> "0"]>>
  /\ filt.tremolo = [depth |-> "0", frequency |-> "2"]
  /\ filt.timescale = [rate |-> "1", speed |-> "1", pitch |-> "1"]
  /\ DOMAIN pl = {"volume", "equalizer", "rotation"}

\* the options carry no send function: the key is omitted, or is no function
NoSendGiven(o) == "send" \notin DOMAIN o \/ ~IsFunction(o.send)

\* the options carry a shard count below 1
BadShardsGiven(o) == "shards" \in DOMAIN o /\ o.shards < 1

\* C10: a constructor call whose options carry no send function, or a shard
\* count below 1, throws.
C10_ConfigErrorsFatal ==
  (mgr.called /\ (NoSendGiven(mgr.given) \/ BadShardsGiven(mgr.given))) =>
    mgr.threw # "none"

\* C11: a voice state update of another user, or for a guild without a
\* Player, changes no Player object, no registry entry and no closure, emits
\* no move event and sends nothing.
C11_ForeignStateIgnored ==
  [][(ev'.op = "stateUpdate" /\ (ev'.arg.user # userId \/ players[ev'.guild] = 0)) =>
       /\ objs' = objs
       /\ players' = players
       /\ polls' = polls
       /\ ev'.sent = <<>>
       /\ ev'.emitted = <<>>
    ]_vars

\* another user's state update arrived for a guild whose Player holds the
\* server half only and is in no channel: accepted, it would have moved the
\* Player or completed its handshake
C11_Witness ==
  /\ ev.op = "stateUpdate"
  /\ ev.arg.user = "other"
  /\ userId = "me"
  /\ players[ev.guild] # 0
  /\ objs[players[ev.guild]].server # NULL
  /\ objs[players[ev.guild]].sessionId = NULL
  /\ objs[players[ev.guild]].channel = NULL

\* C12: destroy returns true exactly when the guild had a Player at the
\* call; when it has completed the guild has no Player; when it returns
\* false the registry is unchanged.
C12_DestroyReturn ==
  [][/\ ev'.op = "destroy" =>
          /\ (ev'.ret = "false") = (players[ev'.guild] = 0)
          /\ players' = players
     /\ ev'.op = "destroyed" =>
          /\ ev'.ret = "true"
          /\ players'[ev'.guild] = 0
    ]_vars

\* C13: a close event of a socket that is already reconnecting starts no
\* further closure for a Player that is bound to it and still waits in one.
C13_NoDuplicatedMigration ==
  [][(ev'.op = "socketClose" /\ status[ev'.arg] = "RECONNECTING") =>
       \A g \in Guilds :
         (/\ players[g] # 0
          /\ objs[players[g]].socket = ev'.arg
          /\ \E r \in BagToSet(polls) : r.p = players[g] /\ r.pc = "timer")
           => PollsOf(polls', players[g]) = PollsOf(polls, players[g])
    ]_vars

\* C14: the closure started by a socket close holds max(position, 0) of its
\* Player and the time of the close; the tick that finds a socket keeps both
\* and sets the offset to the time since the close plus 1000; the play
\* command carries their sum as startTime, which is at least 1000.
C14_ResumePosition ==
  [][/\ ev'.op = "socketClose" =>
          \A x \in ev'.swept :
            x.outcome # "deleted" =>
              \E r \in BagToSet(polls') :
                /\ r.p = x.player
                /\ CopiesIn(r, polls') = CopiesIn(r, polls) + 1
                /\ r.position = (IF objs[x.player].position > 0
                                   THEN objs[x.player].position ELSE 0)
                /\ r.startfind = now
                /\ (x.outcome = "moved") => r.offset = 1000
     /\ (ev'.op = "find_socket" /\ ev'.ret = "moved") =>
          \E r \in BagToSet(polls), q \in BagToSet(polls') :
            /\ r.p = ev'.player /\ r.pc = "timer"
            /\ CopiesIn(r, polls') = CopiesIn(r, polls) - 1
            /\ CopiesIn(q, polls') = CopiesIn(q, polls) + 1
            /\ q.p = r.p /\ q.position = r.position /\ q.startfind = r.startfind
            /\ q.offset = (now - r.startfind) + 1000
     /\ (ev'.op = "apply" /\ Len(ev'.sent) = 2) =>
          \E r \in BagToSet(polls) :
            /\ r.p = ev'.player /\ r.pc = "apply"
            /\ CopiesIn(r, polls') = CopiesIn(r, polls) - 1
            /\ ev'.sent[2].data.startTime = r.position + r.offset
            /\ ev'.sent[2].data.startTime >= 1000
            /\ r.position >= 0
            /\ r.offset >= 1000
    ]_vars

\* a play command resumed a Player at 7 + 1 + 1000: its position was 7 at
\* the close, the socket was found 1 ms later, and the node has reported a
\* negative position since
C14_Witness ==
  /\ ev.op = "apply"
  /\ Len(ev.sent) = 2
  /\ ev.sent[2].data.startTime = 1008
  /\ players[ev.guild] = ev.player
  /\ objs[ev.player].position = -5

\* C15: a closure rebinds its Player to a CONNECTED socket in a step that
\* sends nothing; only a closure that has done so sends the voice update, to
\* the socket the Player is bound to; only a closure that has sent the voice
\* update sends the filter payload of the Player and then, exactly when the
\* Player has a track, the play command for it, to that socket.
C15_StepOrder ==
  [][/\ (ev'.op = "find_socket" /\ ev'.ret = "moved") =>
          /\ ev'.sent = <<>>
          /\ status[ev'.arg] = CONNECTED
          /\ objs'[ev'.player].socket = ev'.arg
     /\ ev'.op = "socketClose" => ev'.sent = <<>>
     /\ \A q \in BagToSet(polls') :
          CopiesIn(q, polls') > CopiesIn(q, polls) =>
            \/ /\ q.pc = "timer"
               /\ ev'.op = "socketClose"
               /\ objs'[q.p].socket = ev'.arg
            \/ /\ q.pc = "voice"
               /\ \/ ev'.op = "find_socket" /\ ev'.ret = "moved" /\ ev'.player = q.p
                  \/ /\ ev'.op = "socketClose"
                     /\ \E x \in ev'.swept : x.player = q.p /\ x.outcome = "moved"
                     /\ objs[q.p].socket = ev'.arg
                     /\ objs'[q.p].socket # ev'.arg
               /\ status'[objs'[q.p].socket] = CONNECTED
            \/ /\ q.pc = "apply"
               /\ ev'.op = "voiceUpdate" /\ ev'.ret = "void" /\ ev'.player = q.p
     /\ (ev'.op = "voiceUpdate" /\ ev'.ret = "void") =>
          \E r \in BagToSet(polls) :
            /\ r.p = ev'.player /\ r.pc = "voice"
            /\ CopiesIn(r, polls') = CopiesIn(r, polls) - 1
            /\ objs' = objs
            /\ ev'.sent = <<[ op |-> "voiceUpdate", to |-> objs[r.p].socket,
                              guild |-> objs[r.p].guild,
                              data |-> [ sessionId |-> objs[r.p].sessionId,
                                         event |-> objs[r.p].server ] ]>>
     /\ ev'.op = "apply" =>
          \E r \in BagToSet(polls) :
            /\ r.p = ev'.player /\ r.pc = "apply"
            /\ CopiesIn(r, polls') = CopiesIn(r, polls) - 1
            /\ Len(ev'.sent) = (IF objs[r.p].track # NULL THEN 2 ELSE 1)
            /\ ev'.sent[1].op = "filters"
            /\ ev'.sent[1].to = objs[r.p].socket
            /\ ev'.sent[1].data = payload(objs[r.p].filters)
            /\ Len(ev'.sent) = 2 =>
                 /\ ev'.sent[2].op = "play"
                 /\ ev'.sent[2].to = objs[r.p].socket
                 /\ ev'.sent[2].data.track = objs[r.p].track
    ]_vars

\* a closure has sent a filter payload with the tremolo key and the play
\* command to the socket its Player is now bound to
C15_Witness ==
  /\ ev.op = "apply"
  /\ Len(ev.sent) = 2
  /\ "tremolo" \in DOMAIN ev.sent[1].data
  /\ ev.sent[1].data.volume = "2"
  /\ ev.sent[2].op = "play"
  /\ players[ev.guild] = ev.player
  /\ objs[ev.player].socket = ev.arg

\* C16: with auto-fallback on, a Player that lacks a handshake half when its
\* socket closes is deleted by that step and gets no closure, and no closure
\* sends a voice update without a session id or without a server payload.
C16_IncompleteNotRelocated ==
  [][/\ (ev'.op = "socketClose" /\ options.auto_fallback_socket) =>
          \A g \in Guilds :
            (/\ players[g] # 0
             /\ objs[players[g]].socket = ev'.arg
             /\ (objs[players[g]].sessionId = NULL \/ objs[players[g]].server = NULL)) =>
              /\ players'[g] = 0
              /\ PollsOf(polls', players[g]) = PollsOf(polls, players[g])
     /\ (ev'.op = "voiceUpdate" /\ ev'.ret = "void") =>
          /\ ev'.sent[1].data.sessionId # NULL
          /\ ev'.sent[1].data.event # NULL
    ]_vars

\* C17: when the voice update of a closure is rejected, the step leaves the
\* registry and every Player object as they are (the Player stays bound to
\* the socket it was moved to), sends nothing, and the closure is gone: it
\* neither goes on to the filters and the play command nor back to its timer.
C17_NotTransactional ==
  [][(ev'.op = "voiceUpdate" /\ ev'.ret = "Error: send rejected") =>
       /\ players' = players
       /\ \A g \in Guilds : players[g] # 0 => objs'[players[g]] = objs[players[g]]
       /\ ev'.sent = <<>>
       /\ PollsOf(polls', ev'.player) = PollsOf(polls, ev'.player) - 1
       /\ \A q \in BagToSet(polls') : CopiesIn(q, polls') <= CopiesIn(q, polls)
    ]_vars

\* the voice update of the only closure was rejected: its Player, which has
\* a track, is registered and bound to the socket it was moved to
C17_Witness ==
  /\ ev.op = "voiceUpdate"
  /\ ev.ret = "Error: send rejected"
  /\ players[ev.guild] = ev.player
  /\ objs[ev.player].socket = ev.arg
  /\ objs[ev.player].track # NULL
  /\ status[ev.arg] = CONNECTED
  /\ polls = EmptyBag

\* C18: a timer tick of a closure while no socket is CONNECTED changes no
\* Player, no registry entry and no closure, sends nothing and throws
\* nothing, and sets the timer again; a tick while a socket is CONNECTED
\* moves the Player to a CONNECTED socket of minimal penalty; a waiting
\* closure ends its wait in no other way.
C18_UnboundedWait ==
  [][/\ (ev'.op = "find_socket" /\ Connected = {}) =>
          /\ ev'.ret = "setTimeout"
          /\ ev'.sent = <<>>
          /\ polls' = polls
          /\ objs' = objs
          /\ players' = players
     /\ (ev'.op = "find_socket" /\ Connected # {}) =>
          /\ ev'.ret = "moved"
          /\ ev'.arg \in Connected
          /\ \A s \in Connected : penalties[ev'.arg] <= penalties[s]
          /\ objs'[ev'.player].socket = ev'.arg
     /\ \A r \in BagToSet(polls) :
          (r.pc = "timer" /\ CopiesIn(r, polls') < CopiesIn(r, polls)) =>
            ev'.op = "find_socket" /\ ev'.ret = "moved" /\ ev'.player = r.p
    ]_vars

\* a tick found no socket CONNECTED: the closure still waits and its Player
\* is registered and bound to a socket that is reconnecting
C18_Witness ==
  /\ ev.op = "find_socket"
  /\ ev.ret = "setTimeout"
  /\ Connected = {}
  /\ players[ev.guild] = ev.player
  /\ status[objs[ev.player].socket] = "RECONNECTING"
  /\ \E r \in BagToSet(polls) : r.p = ev.player /\ r.pc = "timer"

\* C19: an own-user state update for a guild with a Player emits one move
\* event, carrying the channel of the update, exactly when that channel
\* differs from the channel the Player had; afterwards the Player has the
\* channel of the update.
C19_MoveNotification ==
  [][(ev'.op = "stateUpdate" /\ ev'.arg.user = userId /\ players[ev'.guild] # 0) =>
       LET i == players[ev'.guild]
       IN /\ objs'[i].channel = ev'.arg.channel
          /\ IF ev'.arg.channel # objs[i].channel
               THEN ev'.emitted = <<[event |-> "move", data |-> ev'.arg.channel]>>
               ELSE ev'.emitted = <<>>
    ]_vars

\* the own user left its channel: a move event with no channel was emitted
\* and the Player has no channel
C19_Witness ==
  /\ ev.op = "stateUpdate"
  /\ ev.arg.user = userId
  /\ ev.arg.channel = NULL
  /\ ev.emitted = <<[event |-> "move", data |-> NULL]>>
  /\ players[ev.guild] = ev.player
  /\ ev.player # 0
  /\ objs[ev.player].channel = NULL

\* C20: the step of a socket close sweeps the Players bound to the socket
\* when the Manager has auto_fallback_socket on; when it is off the step
\* changes no registry entry, no Player and no closure and sends nothing,
\* and no closure ever runs.
C20_AutoFallbackFlag ==
  /\ [](~options.auto_fallback_socket => polls = EmptyBag)
  /\ [][ev'.op = "socketClose" =>
          IF options.auto_fallback_socket
            THEN {x.guild : x \in ev'.swept}
                   = {g \in Guilds : players[g] # 0 /\ objs[players[g]].socket = ev'.arg}
            ELSE /\ ev'.swept = {}
                 /\ players' = players
                 /\ objs' = objs
                 /\ polls' = polls
                 /\ ev'.sent = <<>>
       ]_vars

\* with auto_fallback_socket off a socket closed and the Player bound to it,
\* which is in a channel, is still registered and bound to it
C20_Witness ==
  /\ ~options.auto_fallback_socket
  /\ ev.op = "socketClose"
  /\ \E g \in Guilds :
       /\ players[g] # 0
       /\ objs[players[g]].socket = ev.arg
       /\ objs[players[g]].channel # NULL
  /\ status[ev.arg] = "RECONNECTING"

\* C21: a constructor call leaves the module-level defaults as they were
\* written, and the options of the Manager it constructs are the options it
\* was given over those original defaults.
C21_OptionIsolation ==
  mgr.called =>
    /\ defaults = defaults0
    /\ mgr.options = ObjectAssign(defaults0, mgr.given)

====
